---- MODULE Spec2Model ----
(***************************************************************************)
(* Signed distance field synthesis of ElArtista/Charge                     *)
(* (src/src/graphics/sdf.rs): computegradient, edgedf, distaa3, edtaa3,    *)
(* make_distance_mapd and make_distance_mapb.                              *)
(*                                                                         *)
(* Numbers.  An f64 of the program is modelled as a fixed-point integer    *)
(* counting thousandths, so that 1.0 is One = 1000 and the sweep's         *)
(* epsilon = 1e-3 is Epsilon = 1.  Products, quotients and square roots    *)
(* are rounded to the nearest thousandth, symmetrically in the sign, as    *)
(* IEEE arithmetic rounds to the nearest double.  The one non-number the   *)
(* program can produce from numeric input, the quotient 0.0/0.0, is the    *)
(* value NaN, for which every comparison is false.                         *)
(*                                                                         *)
(* Buffers are functions over the pixel indices 0 .. w*h-1, as the slices  *)
(* of the program are.  An index outside that range makes the program      *)
(* panic (Rust's bounds check); the model then moves to pc = "panic".      *)
(***************************************************************************)
EXTENDS Integers, FiniteSets, Sequences, TLC

\* ------------------------------------------------------------------ bounds
\* Largest image width and height drawn for a run.
MaxW == 3
MaxH == 3
\* Largest width and height of a changed region of the glyph cache.
MaxRW == 2
MaxRH == 2
\* Largest width and height of a bitmap synthesised twice, as it is and
\* rotated.
MaxRotW == 5
MaxRotH == 3

\* ------------------------------------------------------- program constants
\* 1.0 in thousandths (the fixed-point unit of the model).
One == 1000
\* let epsilon: f64 = 1e-3;
Epsilon == 1
\* const SQRT2: f64 = 1.4142136;
SQRT2 == 1414
\* std::f64::MAX, the start value of vmin (any value above every distance).
F64MAX == 2147483647
\* 1000000.0: "very far", "not set yet".
Sentinel == 1000000 * One
\* 0.5
Half == One \div 2
\* The quotient 0.0 / 0.0: a value apart from every number of a run.
NaN == 0 - F64MAX

\* ------------------------------------------------------------- arithmetic
IsNum(v) == v # NaN

Abs(v) == IF v < 0 THEN -v ELSE v

Sign(v) == IF v < 0 THEN -1 ELSE 1

\* a / b rounded to the nearest integer, b > 0, symmetric in the sign of a.
\* (The arithmetic helpers that take values computed at some cost are
\* functions: a function is applied to the values of its arguments.)
RoundDiv[a \in Int, b \in Int] == Sign(a) * ((2 * Abs(a) + b) \div (2 * b))

\* f64 product of two fixed-point numbers.
FMul(a, b) == RoundDiv[a * b, One]

\* f64 quotient of two fixed-point numbers, b # 0.
FDiv(a, b) == Sign(b) * RoundDiv[a * One, Abs(b)]

\* The one element of a one-element set.  Intermediate results are bound
\* by ranging over such a set, so that each is computed once.
The(s) == CHOOSE v \in s : TRUE

\* Largest r in lo..hi with r*r <= n (bisection).
SqrtSearch[n \in Nat, lo \in Nat, hi \in Nat] ==
    IF lo >= hi THEN lo
    ELSE LET mid == (lo + hi + 1) \div 2
         IN IF mid * mid <= n THEN SqrtSearch[n, mid, hi]
            ELSE SqrtSearch[n, lo, mid - 1]

\* r, the floor of the square root of n, rounded up when n is nearer to
\* (r+1)^2.
RoundRoot[n \in Nat, r \in Nat] == IF n - r * r > r THEN r + 1 ELSE r

\* Square root of the integer n >= 0, rounded to the nearest integer.
ISqrt[n \in Nat] == RoundRoot[n, SqrtSearch[n, 0, 46340]]

\* For 0 <= n < d: q and r with n * m = q * d + r and 0 <= r < d, computed by
\* doubling so that no intermediate value exceeds d (d may be near 2^31).
RECURSIVE MulDivMod(_, _, _)
MulDivMod(n, m, d) ==
    IF m = 0 THEN [q |-> 0, r |-> 0]
    ELSE The({LET c1 == IF hf.r >= d - hf.r THEN 1 ELSE 0
                  r1 == IF c1 = 1 THEN hf.r - (d - hf.r) ELSE hf.r + hf.r
                  ad == IF m % 2 = 1 THEN n ELSE 0
                  c2 == IF ad > 0 /\ r1 >= d - ad THEN 1 ELSE 0
                  r2 == IF c2 = 1 THEN r1 - (d - ad) ELSE r1 + ad
              IN [q |-> 2 * hf.q + c1 + c2, r |-> r2] :
                 hf \in {MulDivMod(n, m \div 2, d)}})

\* f64 quotient n / d for 0 <= n <= d, d > 0, both possibly as large as
\* twice the sentinel: the nearest thousandth of the exact quotient.
Ratio(n, d) ==
    IF n = d THEN One
    ELSE The({m.q + (IF m.r >= d - m.r THEN 1 ELSE 0) :
                 m \in {MulDivMod(n, One, d)}})

\* ------------------------------------------------- f64 comparisons with NaN
Lt(a, b) == IsNum(a) /\ IsNum(b) /\ a < b
Le(a, b) == IsNum(a) /\ IsNum(b) /\ a <= b
Gt(a, b) == IsNum(a) /\ IsNum(b) /\ a > b

\* 1.0 - v
OneMinus(v) == IF IsNum(v) THEN One - v ELSE NaN

\* -------------------------------------------------------- computegradient
\* The pixels k = i * w + j visited by the two loops, 1 <= i < h-1 and
\* 1 <= j < w-1.
InnerPixels(w, h) ==
    {i * w + j : i \in 1 .. (h - 2), j \in 1 .. (w - 2)}

\* The unnormalised gradient at inner pixel k (the two convolution sums).
GradRaw(img, w, k) ==
    [x |-> -img[k - w - 1] - FMul(SQRT2, img[k - 1]) - img[k + w - 1]
           + img[k - w + 1] + FMul(SQRT2, img[k + 1]) + img[k + w + 1],
     y |-> -img[k - w - 1] - FMul(SQRT2, img[k - w]) - img[k - w + 1]
           + img[k + w - 1] + FMul(SQRT2, img[k + w]) + img[k + w + 1]]

\* The gradient written at inner edge pixel k: normalised when its length
\* is positive.
Normalise2[x0 \in Int, y0 \in Int, glength \in Int] ==
    IF glength > 0
    THEN [x |-> FDiv(x0, glength), y |-> FDiv(y0, glength)]
    ELSE [x |-> x0, y |-> y0]

GradUnit[x0 \in Int, y0 \in Int] ==
    Normalise2[x0, y0, ISqrt[x0 * x0 + y0 * y0]]

\* The eight neighbours the two sums read.
Around(w, k) == {k - w - 1, k - w, k - w + 1, k - 1, k + 1,
                 k + w - 1, k + w, k + w + 1}

\* A sum with a term that is not a number is not a number, and so is the
\* length, which fails "glength > 0.0".
GradAt(img, w, k) ==
    IF \E n \in Around(w, k) : ~IsNum(img[n])
    THEN [x |-> NaN, y |-> NaN]
    ELSE GradUnit[GradRaw(img, w, k).x, GradRaw(img, w, k).y]

\* The test with the bounds let in.
IsEdgePixelInclusive(v) == IsNum(v) /\ v >= 0 /\ v <= One

IsEdgePixel(v) == Gt(v, 0) /\ Lt(v, One)

\* computegradient(img, w, h, gx, gy): the new contents of gx and gy.
computegradient(img, w, h, gx0, gy0) ==
    [gx |-> [k \in DOMAIN img |->
               IF k \in InnerPixels(w, h) /\ IsEdgePixel(img[k])
               THEN GradAt(img, w, k).x ELSE gx0[k]],
     gy |-> [k \in DOMAIN img |->
               IF k \in InnerPixels(w, h) /\ IsEdgePixel(img[k])
               THEN GradAt(img, w, k).y ELSE gy0[k]]]

\* ----------------------------------------------------------------- edgedf
\* edgedf, last part: (gx, gy) is a unit vector in the first octant,
\* gx >= gy >= 0.
EdgeOctant[gx \in Int, gy \in Int, a \in Int] ==
    LET a1 == FDiv(FMul(Half, gy), gx)
    IN IF a < a1
       THEN FMul(Half, gx + gy) - ISqrt[RoundDiv[2 * gx * gy * a, One]]
       ELSE IF a < One - a1
       THEN FMul(Half - a, gx)
       ELSE -FMul(Half, gx + gy)
            + ISqrt[RoundDiv[2 * gx * gy * (One - a), One]]

\* edgedf, middle part: normalise by glength, take absolute values and swap
\* so that gx >= gy.
EdgeNormalised[gx0 \in Int, gy0 \in Int, glength \in Int, a \in Int] ==
    LET nx == IF glength > 0 THEN Abs(FDiv(gx0, glength)) ELSE Abs(gx0)
        ny == IF glength > 0 THEN Abs(FDiv(gy0, glength)) ELSE Abs(gy0)
    IN IF nx < ny THEN EdgeOctant[ny, nx, a] ELSE EdgeOctant[nx, ny, a]

\* The linear approximation with its sign turned.
EdgeLinearFlipped(a) == a - Half

\* df = 0.5 - a
EdgeLinear(a) == Half - a

edgedf[gx0 \in Int, gy0 \in Int, a \in Int] ==
    IF gx0 = 0 \/ gy0 = 0
    THEN EdgeLinear(a)
    ELSE EdgeNormalised[gx0, gy0, ISqrt[gx0 * gx0 + gy0 * gy0], a]

\* ---------------------------------------------------------------- distaa3
\* pc after an index out of a slice's range.
Panic == "panic"

\* Clip grayscale values outside the range [0,1].
Clip01(a) == IF a > One THEN One ELSE IF a < 0 THEN 0 ELSE a

\* closest = (c - xc - yc * w) as usize
Closest(w, c, xc, yc) == c - xc - yc * w

\* distaa3 from the clipped coverage a of the edge pixel and its gradient
\* (gxc, gyc) on: the sentinel, or di + df.
DistFrom[a \in Int, gxc \in Int, gyc \in Int, xi \in Int, yi \in Int] ==
    IF a = 0 THEN Sentinel
    ELSE LET dx == xi * One
             dy == yi * One
             di == ISqrt[dx * dx + dy * dy]
         IN IF di = 0 THEN di + edgedf[gxc, gyc, a]
            ELSE di + edgedf[dx, dy, a]

distaa3(img, gximg, gyimg, w, c, xc, yc, xi, yi) ==
    LET closest == Closest(w, c, xc, yc)
    IN IF ~IsNum(img[closest]) THEN NaN
       ELSE DistFrom[Clip01(img[closest]), gximg[closest], gyimg[closest],
                     xi, yi]

\* ------------------------------------------------------------------ state
VARIABLES
    entry,      \* the function called: "mapd" or "mapb"
    width,      \* width
    height,     \* height
    img,        \* make_distance_mapb: the byte slice img (<< >> for "mapd")
    bitmap,     \* the samples make_distance_mapd was called with
    data,       \* make_distance_mapd: data (read, inverted, then written back)
    gx,         \* gradient buffers
    gy,
    distx,      \* xdist / ydist of make_distance_mapd, distx / disty of edtaa3
    disty,
    outside,    \* dist of the first edtaa3 call, then the bipolar field
    inside,     \* dist of the second edtaa3 call
    pass,       \* which of the two edtaa3 calls is running
    vmin,
    out,        \* make_distance_mapb: the returned bytes
    divzero,    \* a division whose divisor is 0.0 has been evaluated
    pc,         \* position in the program
    y,          \* edtaa3: row of the sweep
    x,          \* edtaa3: counter of the inner for loop
    i,          \* edtaa3: index of the pixel under update
    k,          \* edtaa3: candidates of pixel i already tested
    olddist,    \* edtaa3 locals
    c,
    newdistx,
    newdisty,
    newdist,
    called,     \* the last step called distaa3
    changed,
    underflow,  \* an unsigned subtraction below zero has been evaluated
    region,     \* atlas callback: the changed region [x, y, w, h]
    cache,      \* atlas callback: the region's coverage bytes (data)
    upload,     \* atlas callback: the TexSubImage2D calls issued
    first,      \* the result of an earlier call kept by the caller, or << >>
    prev,       \* the img of the call before the running one, or << >>
    should_terminate,   \* MainLoop: should_terminate
    lag,                \* MainLoop::run: lag, in ticks
    elapsed,            \* MainLoop::run: elapsed, in ticks
    perf_samples_acc,   \* MainLoop: perf_samples_acc[0] (Total), in ticks
    perf_samples_cnt,   \* MainLoop: perf_samples_cnt
    requested,          \* a call of update_cb has returned true
    updated_after,      \* update_cb has been called after that call
    rendered_after      \* calls of render_cb after that call (up to 2)

vars == <<entry, width, height, img, bitmap, data, gx, gy, distx, disty,
          outside, inside, pass, vmin, out, divzero, pc, y, x, i, k,
          olddist, c, newdistx, newdisty, newdist, called, changed,
          underflow, region, cache, upload, first, prev, should_terminate,
          lag, elapsed, perf_samples_acc, perf_samples_cnt, requested,
          updated_after, rendered_after>>

\* What the caller holds around one synthesis call.
caller == <<region, cache, upload, first, prev>>
\* The main loop's fields and locals, and what has been seen of its calls.
mainloop == <<should_terminate, lag, elapsed, perf_samples_acc,
              perf_samples_cnt, requested, updated_after, rendered_after>>
input == <<entry, width, height, img, bitmap, caller, mainloop>>
buffers == <<data, gx, gy, distx, disty, outside, inside, vmin, out>>
flags == <<divzero, underflow>>
locals == <<y, x, i, k, olddist, c, newdistx, newdisty, newdist, called,
            changed>>

Pixels(w, h) == 0 .. (w * h - 1)

Zeros(w, h) == [p \in Pixels(w, h) |-> 0]

\* ----------------------------------------------------------------- inputs
\* Coverage of the bulk of a drawn bitmap, and of the region set apart in it.
Levels == {0, Half, One}
MarkLevels == {0 - Half, 0, (3 * One) \div 4, One, One + Half}
ByteLevels == {0, 128, 255}

\* The region set apart: nothing, one pixel, or the columns right of a
\* vertical edge.
Regions(w, h) ==
    {{}} \cup {{p} : p \in Pixels(w, h)}
         \cup {{p \in Pixels(w, h) : p % w >= x0} : x0 \in 1 .. (w - 1)}

Bitmaps(w, h, bulk, marks) ==
    {[p \in Pixels(w, h) |-> IF p \in r THEN m ELSE b] :
        b \in bulk, m \in marks, r \in Regions(w, h)}

\* Bitmaps with a sample that is not a number: NaN on a background of 0 or
\* 1, NaN everywhere, and a column of NaN between an object column and the
\* background.
NaNBitmaps(w, h) ==
    Bitmaps(w, h, {0, One}, {NaN})
        \cup {[p \in Pixels(w, h) |-> NaN]}
        \cup {[p \in Pixels(w, h) |->
                  IF p % w = 0 THEN One ELSE IF p % w = 1 THEN NaN ELSE 0]}

\* Everything but the gradient buffers.
InitLocals(w, h) ==
    /\ width = w
    /\ height = h
    /\ distx = Zeros(w, h)
    /\ disty = Zeros(w, h)
    /\ outside = Zeros(w, h)
    /\ inside = Zeros(w, h)
    /\ pass = "outside"
    /\ vmin = F64MAX
    /\ out = << >>
    /\ divzero = FALSE
    /\ y = 0 /\ x = 0 /\ i = 0 /\ k = 0
    /\ olddist = 0 /\ c = 0 /\ newdistx = 0 /\ newdisty = 0 /\ newdist = 0
    /\ called = FALSE
    /\ changed = 0
    /\ underflow = FALSE
    /\ upload = {}
    /\ first = << >>
    /\ prev = << >>
    /\ should_terminate = FALSE
    /\ lag = 0
    /\ elapsed = 0
    /\ perf_samples_acc = 0
    /\ perf_samples_cnt = 0
    /\ requested = FALSE
    /\ updated_after = FALSE
    /\ rendered_after = 0

\* let mut gx = vec![0.0; width * height], and the same for gy.
InitCommon(w, h) ==
    /\ InitLocals(w, h)
    /\ gx = Zeros(w, h)
    /\ gy = Zeros(w, h)

\* A call of make_distance_mapd(data, width, height).
InitMapd ==
    \E w \in 1 .. MaxW, h \in 1 .. MaxH :
        \E b \in Bitmaps(w, h, Levels, MarkLevels) \cup NaNBitmaps(w, h) :
            /\ entry = "mapd"
            /\ region = << >>
            /\ cache = << >>
            /\ img = << >>
            /\ bitmap = b
            /\ data = b
            /\ pc = "gradient"
            /\ InitCommon(w, h)

\* A call of make_distance_mapb(img, width, height); data = vec![0.0; w*h].
InitMapb ==
    \E w \in 1 .. MaxW, h \in 1 .. MaxH :
        \E b \in Bitmaps(w, h, ByteLevels, ByteLevels) :
            /\ entry = "mapb"
            /\ region = << >>
            /\ cache = << >>
            /\ img = b
            /\ bitmap = << >>
            /\ data = Zeros(w, h)
            /\ pc = "convert"
            /\ InitCommon(w, h)

\* text.rs: let pad = 0
pad == 0

\* let (nw, nh) = (rw + pad, rh + pad)
PaddedSize(r) == [w |-> r.w + pad, h |-> r.h + pad]

\* Corners region.min of the regions drawn for a run.
RegionOrigins == {0, 1}

\* A call of the closure handed to cache_queued, with a changed region and
\* its rw * rh coverage bytes in row order.
InitAtlas ==
    \E rw \in 0 .. MaxRW, rh \in 0 .. MaxRH :
        \E ox \in RegionOrigins, oy \in RegionOrigins :
            \E b \in Bitmaps(rw, rh, ByteLevels, ByteLevels) :
                /\ entry = "atlas"
                /\ region = [x |-> ox, y |-> oy, w |-> rw, h |-> rh]
                /\ cache = b
                /\ img = << >>
                /\ bitmap = << >>
                /\ data = Zeros(PaddedSize(region).w, PaddedSize(region).h)
                /\ pc = "pad"
                /\ InitCommon(PaddedSize(region).w, PaddedSize(region).h)

Init == InitMapd \/ InitMapb \/ InitAtlas

\* ------------------------------------------------- text.rs, atlas callback
\* The rows copied one pixel to the right of where they belong.
PadRowsShifted(d, rw, nw, nh) ==
    [q \in Pixels(nw, nh) |->
        IF (q \div nw) < nh - pad /\ (q % nw) < nw - pad /\ q > 0
        THEN d[q - 1] ELSE 0]

\* padded_data after the row copies: row i of data, rw bytes long, is
\* copied to padded_data[i * nw .. (i + 1) * nw - pad].
PadRows(d, rw, nw, nh) ==
    [q \in Pixels(nw, nh) |->
        IF (q \div nw) < nh - pad /\ (q % nw) < nw - pad
        THEN d[(q \div nw) * rw + (q % nw)] ELSE 0]

\* "Pad data": padded_data is what make_distance_mapb is called with.
AtlasPad ==
    /\ pc = "pad"
    /\ img' = PadRows(cache, region.w, width, height)
    /\ pc' = "convert"
    /\ UNCHANGED <<entry, width, height, bitmap, caller, mainloop, buffers,
                   pass, flags, locals>>

\* gl::TexSubImage2D(.., region.min.x, region.min.y, nw, nh, .., dist_map)
Upload ==
    /\ pc = "upload"
    /\ upload' = upload \cup {[x |-> region.x, y |-> region.y, w |-> width,
                               h |-> height, bytes |-> out]}
    /\ pc' = "done"
    /\ UNCHANGED <<entry, width, height, img, bitmap, region, cache, first,
                   prev, mainloop, buffers, pass, flags, locals>>

\* The dist slice of the running edtaa3 call: outside, then inside.
Dist == IF pass = "outside" THEN outside ELSE inside

SetDist(f) ==
    IF pass = "outside"
    THEN outside' = f /\ UNCHANGED inside
    ELSE inside' = f /\ UNCHANGED outside

\* ------------------------------------------- make_distance_mapb, first half
\* img_min and img_max as the first loop leaves them.
ImgMin(b) == CHOOSE m \in {b[p] : p \in DOMAIN b} :
                 \A p \in DOMAIN b : m <= b[p]
ImgMax(b) == CHOOSE m \in {b[p] : p \in DOMAIN b} :
                 \A p \in DOMAIN b : m >= b[p]

\* (img[i] as f64 - img_min) / img_max
ByteToSample(v, lo, hi) ==
    IF hi = 0 THEN NaN ELSE RoundDiv[(v - lo) * One, hi]

MapbConvert ==
    /\ pc = "convert"
    /\ data' = [p \in DOMAIN img |->
                  ByteToSample(img[p], ImgMin(img), ImgMax(img))]
    /\ divzero' = (divzero \/ (DOMAIN img # {} /\ ImgMax(img) = 0))
    /\ bitmap' = data'
    /\ pc' = "gradient"
    /\ UNCHANGED <<entry, width, height, img, caller, mainloop, gx, gy,
                   distx, disty, outside, inside, pass, vmin, out, underflow,
                   locals>>

\* ----------------------------------------------------- make_distance_mapd
\* The loop bounds h - 1 and w - 1 are usize: h - 1 is evaluated on entry,
\* w - 1 once per row 1 <= i < h - 1.
GradientUnderflows(w, h) == h = 0 \/ (h >= 3 /\ w = 0)

\* An underflow panics in a build with overflow checks and wraps in one
\* without; after a wrap the loops run on and the first img[k] they reach
\* is out of bounds, unless w - 1 <= 1 leaves the inner loop empty.
GradientWrapsQuietly(w, h) == h = 0 /\ w \in {1, 2}

ComputeGradient ==
    /\ pc = "gradient"
    /\ IF GradientUnderflows(width, height)
       THEN /\ underflow' = TRUE
            /\ \/ pc' = "panic"
               \/ GradientWrapsQuietly(width, height) /\ pc' = "edt_init"
            /\ UNCHANGED <<gx, gy>>
       ELSE /\ LET g == computegradient(data, width, height, gx, gy)
               IN gx' = g.gx /\ gy' = g.gy
            /\ pc' = "edt_init"
            /\ UNCHANGED underflow
    /\ UNCHANGED <<input, data, distx, disty, outside, inside, pass, vmin,
                   out, divzero, locals>>

\* The start value of dist[p] in edtaa3.
InitDist(im, gxs, gys, p) ==
    IF Le(im[p], 0) THEN Sentinel
    ELSE IF Lt(im[p], One) THEN edgedf[gxs[p], gys[p], im[p]]
    ELSE 0

\* A stale offset buffer left as it is (the reset forgotten).
InitOffsetKept(buf) == buf

\* distx[i] = 0; disty[i] = 0: "At first, all pixels point to themselves".
InitOffset(buf) == [p \in DOMAIN buf |-> 0]

\* edtaa3: "Initialize the distance images".
Edtaa3Init ==
    /\ pc = "edt_init"
    /\ distx' = InitOffset(distx)
    /\ disty' = InitOffset(disty)
    /\ SetDist([p \in Pixels(width, height) |-> InitDist(data, gx, gy, p)])
    /\ pc' = "loop"
    /\ UNCHANGED <<input, data, gx, gy, pass, vmin, out, flags, locals>>

\* if outside[i] < 0.0 { outside[i] = 0.0 }, and the same for inside.
ClampNegative ==
    /\ pc = "clamp"
    /\ SetDist([p \in DOMAIN Dist |-> IF Dist[p] < 0 THEN 0 ELSE Dist[p]])
    /\ pc' = IF pass = "outside" THEN "invert" ELSE "combine"
    /\ UNCHANGED <<input, data, gx, gy, distx, disty, pass, vmin, out,
                   flags, locals>>

\* gx, gy zeroed again and data[i] = 1.0 - data[i].
Invert ==
    /\ pc = "invert"
    /\ gx' = Zeros(width, height)
    /\ gy' = Zeros(width, height)
    /\ data' = [p \in DOMAIN data |-> OneMinus(data[p])]
    /\ pass' = "inside"
    /\ pc' = "gradient"
    /\ UNCHANGED <<input, distx, disty, outside, inside, vmin, out, flags,
                   locals>>

\* The running minimum of f[j], f[j+1], ... f[n-1], started at v.
RECURSIVE RunMin(_, _, _, _)
RunMin(f, j, n, v) ==
    IF j >= n THEN v
    ELSE The({RunMin(f, j + 1, n, m) : m \in {IF f[j] < v THEN f[j] ELSE v}})

\* The minimum taken without vmin.abs().
VminNoAbs(bipolar, n) == RunMin(bipolar, 0, n, vmin)

\* vmin after the combining loop and vmin.abs().
VminOf(bipolar, n) == Abs(RunMin(bipolar, 0, n, vmin))

\* The two fields subtracted the wrong way round.
BipolarSwapped(o, n) == n - o

\* outside[i] -= inside[i]
Bipolar(o, n) == o - n

\* outside[i] -= inside[i], the minimum, and vmin = vmin.abs().
Combine ==
    /\ pc = "combine"
    /\ outside' = [p \in DOMAIN outside |-> Bipolar(outside[p], inside[p])]
    /\ vmin' = VminOf(outside', width * height)
    /\ pc' = "normalise"
    /\ UNCHANGED <<input, data, gx, gy, distx, disty, inside, pass, out,
                   flags, locals>>

\* The clamp of v to [-vmin, vmin].
Clamp(v, r) == IF v < -r THEN -r ELSE IF v > r THEN r ELSE v

\* (outside[i] + vmin) / (2.0 * vmin)
Remap(v, r) == IF 2 * r = 0 THEN NaN ELSE Ratio(v + r, 2 * r)

Normalise ==
    /\ pc = "normalise"
    /\ outside' = [p \in DOMAIN outside |-> Clamp(outside[p], vmin)]
    /\ data' = [p \in DOMAIN data |-> Remap(outside'[p], vmin)]
    /\ divzero' = (divzero \/ (width * height > 0 /\ 2 * vmin = 0))
    /\ pc' = IF entry = "mapd" THEN "done" ELSE "to_bytes"
    /\ UNCHANGED <<input, gx, gy, distx, disty, inside, pass, vmin, out,
                   underflow, locals>>

\* ------------------------------------------ make_distance_mapb, second half
\* ((255.0 * (1.0 - f)) as u64) as u8: the casts truncate, saturate at 0 and
\* turn NaN into 0.
\* The conversion without the inversion 1.0 - f.
SampleToByteNoInvert(f) ==
    IF ~IsNum(f) THEN 0
    ELSE IF f <= 0 THEN 0
    ELSE ((255 * f) \div One) % 256

SampleToByte(f) ==
    IF ~IsNum(f) THEN 0
    ELSE IF f >= One THEN 0
    ELSE ((255 * (One - f)) \div One) % 256

MapbOutput ==
    /\ pc = "to_bytes"
    /\ out' = [p \in DOMAIN data |-> SampleToByte(data[p])]
    /\ pc' = IF entry = "atlas" THEN "upload" ELSE "done"
    /\ UNCHANGED <<input, data, gx, gy, distx, disty, outside, inside, pass,
                   vmin, flags, locals>>

\* ----------------------------------------------------------------- edtaa3
\* A candidate: the index offset of the neighbour and what is added to the
\* neighbour's (distx, disty) to get (newdistx, newdisty).
offset_u(w)  == [off |-> -w,     dx |-> 0,  dy |-> 1]
\* The upper right neighbour taken with the upper left one's step.
offset_ur_as_lu(w) == [off |-> -w + 1, dx |-> 1, dy |-> 1]
offset_ur(w) == [off |-> -w + 1, dx |-> -1, dy |-> 1]
offset_r(w)  == [off |-> 1,      dx |-> -1, dy |-> 0]
offset_rd(w) == [off |-> w + 1,  dx |-> -1, dy |-> -1]
\* The lower neighbour taken with the upper one's step.
offset_d_as_u(w) == [off |-> w,  dx |-> 0,  dy |-> 1]
offset_d(w)  == [off |-> w,      dx |-> 0,  dy |-> -1]
offset_dl(w) == [off |-> w - 1,  dx |-> 1,  dy |-> -1]
offset_l(w)  == [off |-> -1,     dx |-> 1,  dy |-> 0]
offset_lu(w) == [off |-> -w - 1, dx |-> 1,  dy |-> 1]

\* The candidates tested for a pixel, in the order of the code, by the part
\* of the sweep (seg) that visits it.
Cands(seg, w) ==
    CASE seg = "fwd_left"  -> <<offset_u(w), offset_ur(w)>>
      [] seg = "fwd_mid"   -> <<offset_l(w), offset_lu(w), offset_u(w),
                                offset_ur(w)>>
      [] seg = "fwd_right" -> <<offset_l(w), offset_lu(w), offset_u(w)>>
      [] seg = "fwd_scan"  -> <<offset_r(w)>>
      [] seg = "bwd_right" -> <<offset_d(w), offset_dl(w)>>
      [] seg = "bwd_mid"   -> <<offset_r(w), offset_rd(w), offset_d(w),
                                offset_dl(w)>>
      [] seg = "bwd_left"  -> <<offset_r(w), offset_rd(w), offset_d(w)>>
      [] seg = "bwd_scan"  -> <<offset_l(w)>>

SweepPcs == {"fwd_left", "fwd_mid", "fwd_right", "fwd_scan",
             "bwd_right", "bwd_mid", "bwd_left", "bwd_scan"}

Pos(p, yy, xx, ii) == [pc |-> p, y |-> yy, x |-> xx, i |-> ii]

\* if changed == 0 { break; }
SweepEndPos(w, h) == Pos("sweep_end", 0, 0, 0)

\* for y in (0..=(h - 2)).rev(): i = y * w + w - 1
BwdRow(w, h, yy) == Pos("bwd_right", yy, 0, yy * w + w - 1)

BwdStart(w, h) == IF h - 2 >= 0 THEN BwdRow(w, h, h - 2) ELSE SweepEndPos(w, h)

BwdNextRow(w, h, yy) ==
    IF yy - 1 >= 0 THEN BwdRow(w, h, yy - 1) ELSE SweepEndPos(w, h)

\* for y in 1..h: i = y * w
FwdRow(w, h, yy) == Pos("fwd_left", yy, 0, yy * w)

FwdStart(w, h) == IF 1 < h THEN FwdRow(w, h, 1) ELSE BwdStart(w, h)

FwdNextRow(w, h, yy) ==
    IF yy + 1 < h THEN FwdRow(w, h, yy + 1) ELSE BwdStart(w, h)

\* Where the sweep goes when the visit of pixel ii by seg is over.
After(seg, w, h, yy, xx, ii) ==
    CASE seg = "fwd_left" ->
            IF 1 < w - 1 THEN Pos("fwd_mid", yy, 1, ii + 1)
            ELSE Pos("fwd_right", yy, 0, ii + 1)
      [] seg = "fwd_mid" ->
            IF xx + 1 < w - 1 THEN Pos("fwd_mid", yy, xx + 1, ii + 1)
            ELSE Pos("fwd_right", yy, 0, ii + 1)
      [] seg = "fwd_right" ->
            IF w - 2 >= 0 THEN Pos("fwd_scan", yy, w - 2, yy * w + w - 2)
            ELSE FwdNextRow(w, h, yy)
      [] seg = "fwd_scan" ->
            IF xx - 1 >= 0 THEN Pos("fwd_scan", yy, xx - 1, ii - 1)
            ELSE FwdNextRow(w, h, yy)
      [] seg = "bwd_right" ->
            IF 1 <= w - 2 THEN Pos("bwd_mid", yy, 1, ii - 1)
            ELSE Pos("bwd_left", yy, 0, ii - 1)
      [] seg = "bwd_mid" ->
            IF xx + 1 <= w - 2 THEN Pos("bwd_mid", yy, xx + 1, ii - 1)
            ELSE Pos("bwd_left", yy, 0, ii - 1)
      [] seg = "bwd_left" ->
            IF 1 < w THEN Pos("bwd_scan", yy, 1, yy * w + 1)
            ELSE BwdNextRow(w, h, yy)
      [] seg = "bwd_scan" ->
            IF xx + 1 < w THEN Pos("bwd_scan", yy, xx + 1, ii + 1)
            ELSE BwdNextRow(w, h, yy)

Goto(p) == pc' = p.pc /\ y' = p.y /\ x' = p.x /\ i' = p.i /\ k' = 0

\* The loop top without "changed = 0".
SweepBeginNoReset ==
    /\ pc = "loop"
    /\ called' = FALSE
    /\ Goto(FwdStart(width, height))
    /\ UNCHANGED <<input, buffers, pass, flags, olddist, c, newdistx,
                   newdisty, newdist, changed>>

\* loop { changed = 0; ...
SweepBegin ==
    /\ pc = "loop"
    /\ changed' = 0
    /\ called' = FALSE
    /\ Goto(FwdStart(width, height))
    /\ UNCHANGED <<input, buffers, pass, flags, olddist, c, newdistx,
                   newdisty, newdist>>

\* ... if changed == 0 { break; } }
SweepEnd ==
    /\ pc = "sweep_end"
    /\ pc' = IF changed = 0 THEN "clamp" ELSE "loop"
    /\ called' = FALSE
    /\ UNCHANGED <<input, buffers, pass, flags, y, x, i, k, olddist, c,
                   newdistx, newdisty, newdist, changed>>

\* An index out of range: the program panics.
Panics ==
    /\ pc' = Panic
    /\ called' = FALSE
    /\ UNCHANGED <<input, buffers, pass, flags, y, x, i, k, olddist, c,
                   newdistx, newdisty, newdist, changed>>

\* No pixel is skipped.
SkippedNever(seg, od) == FALSE

\* Whether the visit of a pixel at distance od ends before any candidate is
\* tested: "if olddist > 0.0 { ... }" at the ends of a row,
\* "if olddist <= 0.0 { continue; }" inside the loops.
Skipped(seg, od) ==
    IF seg \in {"fwd_left", "fwd_right", "bwd_right", "bwd_left"}
    THEN ~Gt(od, 0)
    ELSE Le(od, 0)

\* Any candidate with another distance taken.
ImprovesIfDifferent(nd, od) == IsNum(nd) /\ nd # od

\* if newdist < olddist - epsilon
Improves(nd, od) == Lt(nd, od - Epsilon)

\* A replacement that forgets disty[i].
ReplaceWithoutY(ndx, ndy, nd) ==
    /\ distx' = [distx EXCEPT ![i] = ndx]
    /\ disty' = disty
    /\ SetDist([Dist EXCEPT ![i] = nd])

\* distx[i] = newdistx; disty[i] = newdisty; dist[i] = newdist;
Replace(ndx, ndy, nd) ==
    /\ distx' = [distx EXCEPT ![i] = ndx]
    /\ disty' = [disty EXCEPT ![i] = ndy]
    /\ SetDist([Dist EXCEPT ![i] = nd])

\* One candidate check of pixel i: candidate number k+1 of the segment.
\* od is the pixel's olddist at this point.
Check(seg, od) ==
    LET cand == Cands(seg, width)[k + 1]
        last == (k + 1 = Len(Cands(seg, width)))
        cc == i + cand.off
    IN IF cc \notin Pixels(width, height) THEN Panics
       ELSE LET cdistx == distx[cc]
                cdisty == disty[cc]
                ndx == cdistx + cand.dx
                ndy == cdisty + cand.dy
            IN IF Closest(width, cc, cdistx, cdisty) \notin DOMAIN data
               THEN Panics
               ELSE \E nd \in {distaa3(data, gx, gy, width, cc, cdistx,
                                        cdisty, ndx, ndy)} :
                    /\ c' = cc
                    /\ newdistx' = ndx
                    /\ newdisty' = ndy
                    /\ newdist' = nd
                    /\ called' = TRUE
                    /\ IF Improves(nd, od)
                       THEN /\ Replace(ndx, ndy, nd)
                            /\ olddist' = IF last THEN od ELSE nd
                            /\ changed' = 1
                       ELSE /\ UNCHANGED <<distx, disty, outside, inside,
                                           changed>>
                            /\ olddist' = od
                    /\ IF last
                       THEN Goto(After(seg, width, height, y, x, i))
                       ELSE /\ k' = k + 1
                            /\ UNCHANGED <<pc, y, x, i>>
                    /\ UNCHANGED <<input, data, gx, gy, pass, vmin, out,
                                   flags>>

\* One step of the visit of pixel i by seg: read olddist and skip the pixel,
\* or test the next candidate.
Visit(seg) ==
    IF k > 0 THEN Check(seg, olddist)
    ELSE IF i \notin Pixels(width, height) THEN Panics
    ELSE IF Skipped(seg, Dist[i])
    THEN /\ olddist' = Dist[i]
         /\ called' = FALSE
         /\ Goto(After(seg, width, height, y, x, i))
         /\ UNCHANGED <<input, buffers, pass, flags, c, newdistx,
                        newdisty, newdist, changed>>
    ELSE Check(seg, Dist[i])

\* First sub-pass: rows 1 .. h-1, top to bottom.
FwdLeftmost  == pc = "fwd_left"  /\ Visit("fwd_left")
FwdMiddle    == pc = "fwd_mid"   /\ Visit("fwd_mid")
FwdRightmost == pc = "fwd_right" /\ Visit("fwd_right")
FwdScanLeft  == pc = "fwd_scan"  /\ Visit("fwd_scan")
\* Second sub-pass: rows h-2 .. 0, bottom to top.
BwdRightmost == pc = "bwd_right" /\ Visit("bwd_right")
BwdMiddle    == pc = "bwd_mid"   /\ Visit("bwd_mid")
BwdLeftmost  == pc = "bwd_left"  /\ Visit("bwd_left")
BwdScanRight == pc = "bwd_scan"  /\ Visit("bwd_scan")

Sweep ==
    \/ SweepBegin
    \/ FwdLeftmost \/ FwdMiddle \/ FwdRightmost \/ FwdScanLeft
    \/ BwdRightmost \/ BwdMiddle \/ BwdLeftmost \/ BwdScanRight
    \/ SweepEnd

Next ==
    \/ AtlasPad
    \/ MapbConvert
    \/ ComputeGradient
    \/ Edtaa3Init
    \/ Sweep
    \/ ClampNegative
    \/ Invert
    \/ Combine
    \/ Normalise
    \/ MapbOutput
    \/ Upload

Spec == Init /\ [][Next]_vars

\* The program is sequential and runs without suspension: a step that can
\* be taken is taken.
LiveSpec == Init /\ [][Next]_vars /\ WF_vars(Next)

\* The last loop of make_distance_mapb alone, on a one-pixel field holding
\* any value of [0,1].
QuantInit ==
    \E f \in 0 .. One :
        /\ entry = "mapb"
        /\ region = << >>
        /\ cache = << >>
        /\ img = << >>
        /\ bitmap = << >>
        /\ data = [p \in Pixels(1, 1) |-> f]
        /\ pc = "to_bytes"
        /\ InitCommon(1, 1)

QuantSpec == QuantInit /\ [][MapbOutput]_vars

\* ------------------------------------------- two calls, the second rotated
\* Coverage of the pixels of an antialiased edge.
RotLevels == {0, One \div 10, (3 * One) \div 10}

\* An object filling the columns left of an antialiased vertical edge: the
\* last column is background and the column before it holds one coverage
\* of RotLevels per row.
RotBitmaps(w, h) ==
    {[p \in Pixels(w, h) |->
         IF p % w < w - 2 THEN One
         ELSE IF p % w = w - 2 THEN lv[p \div w]
         ELSE 0] : lv \in [0 .. (h - 1) -> RotLevels]}

\* The bitmap turned by 180 degrees: pixel p goes to pixel w*h - 1 - p.
Rotate180(f, n) == [p \in DOMAIN f |-> f[n - 1 - p]]

RotInit ==
    \E w \in 2 .. MaxRotW, h \in 1 .. MaxRotH :
        \E b \in RotBitmaps(w, h) :
            /\ entry = "mapd"
            /\ region = << >>
            /\ cache = << >>
            /\ img = << >>
            /\ bitmap = b
            /\ data = b
            /\ pc = "gradient"
            /\ InitCommon(w, h)

\* The caller keeps the field of the first call and calls
\* make_distance_mapd again, with the rotated bitmap and fresh buffers.
Rerun ==
    /\ pc = "done" /\ entry = "mapd" /\ DOMAIN first = {}
    /\ first' = data
    /\ bitmap' = Rotate180(bitmap, width * height)
    /\ data' = bitmap'
    /\ gx' = Zeros(width, height) /\ gy' = Zeros(width, height)
    /\ distx' = Zeros(width, height) /\ disty' = Zeros(width, height)
    /\ outside' = Zeros(width, height) /\ inside' = Zeros(width, height)
    /\ pass' = "outside"
    /\ vmin' = F64MAX
    /\ y' = 0 /\ x' = 0 /\ i' = 0 /\ k' = 0
    /\ olddist' = 0 /\ c' = 0 /\ newdistx' = 0 /\ newdisty' = 0
    /\ newdist' = 0 /\ called' = FALSE /\ changed' = 0
    /\ pc' = "gradient"
    /\ UNCHANGED <<entry, width, height, img, region, cache, upload, prev,
                   mainloop, out, flags>>

RotNext ==
    \/ ComputeGradient
    \/ Edtaa3Init
    \/ Sweep
    \/ ClampNegative
    \/ Invert
    \/ Combine
    \/ Normalise
    \/ Rerun

RotSpec == RotInit /\ [][RotNext]_vars

\* -------------------------- edtaa3's initialisation on a one-pixel image
\* Gradient components and coverages handed to edtaa3.
GradLevels == {0 - One, 0 - 707, 0 - 600, 0, 600, 707, 800, One}
CoverLevels == {0, One \div 10, One \div 4, Half, (3 * One) \div 4,
                (9 * One) \div 10, One}

\* A call of edtaa3 on a one-pixel image with any gradient; its first loop
\* evaluates edgedf(gx[0], gy[0], img[0]) when the pixel is an edge pixel.
EdgeInit ==
    \E g \in GradLevels, gg \in GradLevels, a \in CoverLevels :
        /\ InitLocals(1, 1)
        /\ entry = "edtaa3"
        /\ region = << >>
        /\ cache = << >>
        /\ img = << >>
        /\ bitmap = [p \in Pixels(1, 1) |-> a]
        /\ data = bitmap
        /\ pc = "edt_init"
        /\ gx = [p \in Pixels(1, 1) |-> g]
        /\ gy = [p \in Pixels(1, 1) |-> gg]

EdgeSpec == EdgeInit /\ [][Edtaa3Init]_vars

\* ------------------------------------ make_distance_mapb called repeatedly
MaxPW == 3
MaxPH == 2

\* Images of the calls made between two calls with equal arguments: a blank
\* one, and one with an antialiased edge before the last column.
Interleaved(w, h) ==
    {[p \in Pixels(w, h) |-> 0],
     [p \in Pixels(w, h) |-> IF p % w = w - 1 THEN 255 ELSE 128]}

\* The first of several calls of make_distance_mapb; the caller keeps its
\* bytes in cache.
PureInit ==
    \E w \in 1 .. MaxPW, h \in 1 .. MaxPH :
        \E b \in Bitmaps(w, h, ByteLevels, ByteLevels) :
            /\ entry = "mapb"
            /\ region = << >>
            /\ cache = b
            /\ img = b
            /\ bitmap = << >>
            /\ data = Zeros(w, h)
            /\ pc = "convert"
            /\ InitCommon(w, h)

\* vmin left as the call before wrote it.
StaleVmin == vmin

\* let mut vmin = std::f64::MAX
FreshVmin == F64MAX

\* The caller takes the returned bytes and calls make_distance_mapb again,
\* with the same bytes or with others; the callee's locals and the vectors
\* it allocates are made anew.
MapbCall ==
    /\ pc = "done" /\ entry = "mapb"
    /\ first' = IF DOMAIN first = {} THEN out ELSE first
    /\ prev' = img
    /\ \E b \in {cache} \cup Interleaved(width, height) : img' = b
    /\ data' = Zeros(width, height)
    /\ out' = << >>
    /\ bitmap' = << >>
    /\ gx' = Zeros(width, height) /\ gy' = Zeros(width, height)
    /\ distx' = Zeros(width, height) /\ disty' = Zeros(width, height)
    /\ outside' = Zeros(width, height) /\ inside' = Zeros(width, height)
    /\ pass' = "outside"
    /\ vmin' = FreshVmin
    /\ y' = 0 /\ x' = 0 /\ i' = 0 /\ k' = 0
    /\ olddist' = 0 /\ c' = 0 /\ newdistx' = 0 /\ newdisty' = 0
    /\ newdist' = 0 /\ called' = FALSE /\ changed' = 0
    /\ pc' = "convert"
    /\ UNCHANGED <<entry, width, height, region, cache, upload, mainloop,
                   flags>>

PureNext ==
    \/ MapbConvert
    \/ ComputeGradient
    \/ Edtaa3Init
    \/ Sweep
    \/ ClampNegative
    \/ Invert
    \/ Combine
    \/ Normalise
    \/ MapbOutput
    \/ MapbCall

PureSpec == PureInit /\ [][PureNext]_vars

\* ----------------------------------------------------------- MainLoop::run
\* Time is counted in ticks of half an update period.
\* ms_per_update = 1000.0 / updates_per_second, in ticks.
MsPerUpdate == 2
\* perf_refr_rate * 1000.0 = 500 ms = 30 update periods, in ticks.
PerfRefresh == 60
\* The longest frame, in ticks.
MaxElapsed == 5

Min2(a, b) == IF a < b THEN a ELSE b

\* MainLoop::new followed by run up to the first test of the outer loop.
MainInit ==
    /\ entry = "run"
    /\ region = << >>
    /\ cache = << >>
    /\ img = << >>
    /\ bitmap = << >>
    /\ data = << >>
    /\ pc = "run_while"
    /\ InitCommon(0, 0)

\* All the state of the distance-field functions.
sdf == <<entry, width, height, img, bitmap, caller, buffers, pass, flags,
         locals>>

\* while !self.should_terminate
RunWhile ==
    /\ pc = "run_while"
    /\ pc' = IF should_terminate THEN "run_returned" ELSE "run_catchup"
    /\ UNCHANGED <<sdf, mainloop>>

\* while lag > ms_per_update
RunCatchUp ==
    /\ pc = "run_catchup"
    /\ pc' = IF lag > MsPerUpdate THEN "run_update" ELSE "run_render"
    /\ UNCHANGED <<sdf, mainloop>>

\* self.should_terminate = rt.1
StoreResult(flag, r) == r

\* rt = (self.update_cb)(..); self.should_terminate = rt.1;
\* lag -= ms_per_update.  Game::update returns true when the polled events
\* hold a close request or the release of Escape.
RunUpdate ==
    /\ pc = "run_update"
    /\ \E r \in BOOLEAN :
           /\ should_terminate' = StoreResult(should_terminate, r)
           /\ requested' = (requested \/ r)
    /\ updated_after' = (updated_after \/ requested)
    /\ lag' = lag - MsPerUpdate
    /\ pc' = "run_catchup"
    /\ UNCHANGED <<sdf, elapsed, perf_samples_acc, perf_samples_cnt,
                   rendered_after>>

\* interpolation = lag / ms_per_update; (self.render_cb)(..)
RunRender ==
    /\ pc = "run_render"
    /\ rendered_after' = IF requested THEN Min2(rendered_after + 1, 2)
                         ELSE rendered_after
    /\ pc' = "run_perf"
    /\ UNCHANGED <<sdf, should_terminate, lag, elapsed, perf_samples_acc,
                   perf_samples_cnt, requested, updated_after>>

\* if let Some(perf_cb) = &self.perf_cb { .. }: the sample of the frame
\* before is added, and past the refresh time perf_cb is called and the
\* samples are cleared.
RunPerf ==
    /\ pc = "run_perf"
    /\ IF perf_samples_acc + elapsed >= PerfRefresh
       THEN perf_samples_acc' = 0 /\ perf_samples_cnt' = 0
       ELSE /\ perf_samples_acc' = perf_samples_acc + elapsed
            /\ perf_samples_cnt' = perf_samples_cnt + 1
    /\ pc' = "run_frame_end"
    /\ UNCHANGED <<sdf, should_terminate, lag, elapsed, requested,
                   updated_after, rendered_after>>

\* elapsed = timeit(..).0; lag += elapsed
RunFrameEnd ==
    /\ pc = "run_frame_end"
    /\ \E e \in 1 .. MaxElapsed :
           elapsed' = e /\ lag' = lag + e
    /\ pc' = "run_while"
    /\ UNCHANGED <<sdf, should_terminate, perf_samples_acc,
                   perf_samples_cnt, requested, updated_after,
                   rendered_after>>

MainNext ==
    \/ RunWhile
    \/ RunCatchUp
    \/ RunUpdate
    \/ RunRender
    \/ RunPerf
    \/ RunFrameEnd

MainSpec == MainInit /\ [][MainNext]_vars

\* ================================================================= claims
\* The states of a running edtaa3 call, from the end of its initialisation
\* to its return.
EdtPcs == SweepPcs \cup {"loop", "sweep_end", "clamp"}

\* Column and row of pixel p.
Col(p) == p % width
Row(p) == p \div width

\* The pixel that pixel p's offset designates, as the pair (column, row).
DesignatedCol(p) == Col(p) - distx[p]
DesignatedRow(p) == Row(p) - disty[p]

TripleChanges(p) ==
    \/ distx'[p] # distx[p]
    \/ disty'[p] # disty[p]
    \/ Dist'[p] # Dist[p]

\* C1: during the sweep of edtaa3 a step that changes any of distx[p],
\* disty[p], dist[p] is a candidate check of pixel p = i; it leaves in the
\* three buffers the candidate's (newdistx, newdisty, newdist), where
\* newdist is what distaa3 returns for the candidate, and newdist is
\* smaller than the pixel's distance before the step by more than epsilon.
C1_TripleReplacedTogether ==
    [][ (pc \in EdtPcs /\ pc' \in EdtPcs \cup {Panic}) =>
          \A p \in Pixels(width, height) :
              TripleChanges(p) =>
                  /\ called'
                  /\ pc \in SweepPcs
                  /\ p = i
                  /\ distx'[p] = newdistx'
                  /\ disty'[p] = newdisty'
                  /\ Dist'[p] = newdist'
                  /\ newdist' = distaa3(data, gx, gy, width, c', distx[c'],
                                        disty[c'], newdistx', newdisty')
                  /\ newdist' < Dist[p] - Epsilon ]_vars

\* C1 witness: a candidate has just been adopted: the pixel checked last
\* holds the candidate's triple, with an offset that is not (0,0).
C1_Witness ==
    /\ pc \in SweepPcs
    /\ called
    /\ changed = 1
    /\ \E p \in Pixels(width, height) :
          /\ distx[p] = newdistx /\ disty[p] = newdisty
          /\ Dist[p] = newdist
          /\ newdistx # 0 /\ newdisty # 0

\* C2: in every state of edtaa3 on an image with w >= 2 and h >= 2, the
\* offset of every pixel designates a pixel inside the image, and a pixel
\* whose offset is not (0,0) designates a pixel of coverage > 0.
C2_OffsetDesignatesObjectPixel ==
    (pc \in EdtPcs /\ width >= 2 /\ height >= 2) =>
        \A p \in Pixels(width, height) :
            /\ 0 <= DesignatedCol(p) /\ DesignatedCol(p) < width
            /\ 0 <= DesignatedRow(p) /\ DesignatedRow(p) < height
            /\ Closest(width, p, distx[p], disty[p]) =
                  DesignatedRow(p) * width + DesignatedCol(p)
            /\ (distx[p] # 0 \/ disty[p] # 0) =>
                  Gt(data[Closest(width, p, distx[p], disty[p])], 0)

\* C2 witness: a pixel two columns and a row away from the pixel it
\* designates.
C2_Witness ==
    /\ pc \in EdtPcs /\ width >= 2 /\ height >= 2
    /\ \E p \in Pixels(width, height) :
          Abs(distx[p]) = 2 /\ Abs(disty[p]) >= 1

\* C3: edtaa3 terminates on every bitmap with w >= 2 and h >= 2, samples
\* outside [0,1] included: a run reaches the end of the program (both edtaa3
\* calls have returned); the flag changed is set by every step of the sweep
\* that replaces a triple, and the loop exits at the end of the first
\* iteration that leaves the flag at 0, and only then.
C3_SweepTerminates ==
    /\ [][ (pc \in SweepPcs /\ \E p \in Pixels(width, height) :
                                   TripleChanges(p))
              => changed' = 1 ]_vars
    /\ [][ pc = "sweep_end" => (pc' = "clamp" <=> changed = 0) ]_vars
    /\ ((width >= 2 /\ height >= 2) => <>(pc = "done"))

\* C3 witness: the second edtaa3 call of a run on a bitmap with a sample
\* outside [0,1] has left its loop, after sweeps that replaced triples.
C3_Witness ==
    /\ width >= 2 /\ height >= 2
    /\ pc = "clamp" /\ pass = "inside" /\ changed = 0
    /\ \E p \in Pixels(width, height) : Lt(One, bitmap[p]) \/ Lt(bitmap[p], 0)
    /\ \E p \in Pixels(width, height) : distx[p] # 0 /\ disty[p] # 0

\* The 8-connected neighbours of pixel p inside the image.
Neighbours(p) ==
    {n \in Pixels(width, height) :
        /\ n # p
        /\ Abs(Col(n) - Col(p)) <= 1
        /\ Abs(Row(n) - Row(p)) <= 1}

\* What distaa3 returns for pixel p tested against its neighbour n: n's
\* offset plus the step from n to p.
CandidateDist(p, n) ==
    distaa3(data, gx, gy, width, n, distx[n], disty[n],
            distx[n] + (Col(p) - Col(n)), disty[n] + (Row(p) - Row(n)))

\* No neighbour of a pixel at positive distance offers a distance smaller
\* than the pixel's by more than epsilon.
LocallyStable ==
    \A p \in Pixels(width, height) :
        Dist[p] > 0 =>
            \A n \in Neighbours(p) : ~Improves(CandidateDist(p, n), Dist[p])

\* C4: when edtaa3 returns, for every image size w >= 1, h >= 1, every
\* pixel p with dist[p] > 0 and every 8-connected neighbour n of p inside
\* the image, the candidate distance computed from n is not smaller than
\* dist[p] - 1e-3.
C4_StableOnReturn ==
    pc = "clamp" => LocallyStable

\* C5: a pixel at distance <= 0 when a sub-pass visits it is skipped (no
\* candidate is evaluated, no triple changes in that step), and a pixel
\* initialised with dist <= 0 keeps the triple (0, 0, initial dist) until
\* edtaa3 returns.
C5_ResolvedPixelsUntouched ==
    /\ [][ (pc \in SweepPcs /\ k = 0 /\ i \in Pixels(width, height)
              /\ Dist[i] <= 0)
            => /\ ~called'
               /\ pc' # Panic
               /\ <<distx, disty, outside, inside>>'
                    = <<distx, disty, outside, inside>> ]_vars
    /\ [](pc \in EdtPcs =>
            \A p \in Pixels(width, height) :
                InitDist(data, gx, gy, p) <= 0 =>
                    /\ distx[p] = 0 /\ disty[p] = 0
                    /\ Dist[p] = InitDist(data, gx, gy, p))

\* C5 witness: edtaa3 has returned from sweeps that replaced triples, on an
\* image with an edge pixel whose first estimate is negative.
C5_Witness ==
    /\ pc = "clamp"
    /\ \E p \in Pixels(width, height) : distx[p] # 0
    /\ \E p \in Pixels(width, height) :
          IsEdgePixel(data[p]) /\ Dist[p] < 0 /\ distx[p] = 0 /\ disty[p] = 0

\* C6: the initialisation of edtaa3 leaves, for every pixel p,
\* distx[p] = disty[p] = 0 and dist[p] = 1000000.0 if img[p] <= 0,
\* edgedf(gx[p], gy[p], img[p]) if 0 < img[p] < 1, and 0 otherwise,
\* whatever the three buffers held before: the state in which the sweep
\* starts is a function of img, gx and gy alone, in the second call (which
\* gets the offsets the first call left) as in the first.
C6_InitIgnoresOldContents ==
    [][ pc = "edt_init" =>
          \A p \in Pixels(width, height) :
              /\ distx'[p] = 0
              /\ disty'[p] = 0
              /\ Dist'[p] =
                    (IF Le(data[p], 0) THEN Sentinel
                     ELSE IF Lt(data[p], One) THEN edgedf[gx[p], gy[p], data[p]]
                     ELSE 0) ]_vars

\* C6 witness: the second call has been initialised, and the first call
\* had replaced the triple of a background pixel (so the offset buffers
\* were not zero when the second call got them).
C6_Witness ==
    /\ pc = "loop" /\ pass = "inside" /\ changed = 0
    /\ \A p \in Pixels(width, height) : distx[p] = 0 /\ disty[p] = 0
    /\ \E p \in Pixels(width, height) :
          bitmap[p] = 0 /\ outside[p] > 0 /\ outside[p] < Sentinel

\* Every sample of the bitmap handed to make_distance_mapd is in [0,1].
InRange == \A p \in DOMAIN bitmap : Le(0, bitmap[p]) /\ Le(bitmap[p], One)

\* C7: for every bitmap with samples in [0,1], every sample that
\* make_distance_mapd writes back into data is a number in [0,1]; a pixel
\* whose bipolar value is 0 is written as 0.5 and the pixel holding the
\* minimum bipolar value is written as 0.
C7_NormalisedOutput ==
    [][ (pc = "normalise" /\ InRange) =>
          \A p \in Pixels(width, height) :
              /\ IsNum(data'[p]) /\ 0 <= data'[p] /\ data'[p] <= One
              /\ outside[p] = 0 => data'[p] = Half
              /\ (\A q \in Pixels(width, height) : outside[p] <= outside[q])
                    => data'[p] = 0 ]_vars

\* C8: for every bitmap with samples in [0,1] that contains a pixel of
\* coverage 0 and a pixel of coverage 1, the bipolar value is > 0 at every
\* pixel of coverage 0 and < 0 at every pixel of coverage 1, and the
\* normalised output is > 0.5 at the former and < 0.5 at the latter.
C8_SignFollowsCoverage ==
    (/\ InRange
     /\ \E p \in DOMAIN bitmap : bitmap[p] = 0
     /\ \E p \in DOMAIN bitmap : bitmap[p] = One)
    => /\ pc = "normalise" =>
             \A p \in Pixels(width, height) :
                 /\ bitmap[p] = 0 => outside[p] > 0
                 /\ bitmap[p] = One => outside[p] < 0
       /\ pc \in {"to_bytes", "done"} =>
             \A p \in Pixels(width, height) :
                 /\ bitmap[p] = 0 => Gt(data[p], Half)
                 /\ bitmap[p] = One => Lt(data[p], Half)

\* C8 witness: make_distance_mapd has returned on a bitmap of at least
\* 2 x 2 pixels with a pixel of coverage 0 and a pixel of coverage 1.
C8_Witness ==
    /\ pc = "done" /\ entry = "mapd" /\ width >= 2 /\ height >= 2
    /\ InRange
    /\ \E p \in DOMAIN bitmap : bitmap[p] = 0 /\ Gt(data[p], Half)
    /\ \E p \in DOMAIN bitmap : bitmap[p] = One /\ Lt(data[p], Half)

\* The minimum and the largest magnitude of a field.
MinOf(f) == CHOOSE m \in {f[p] : p \in DOMAIN f} : \A p \in DOMAIN f : m <= f[p]
MaxAbsOf(f) ==
    CHOOSE m \in {Abs(f[p]) : p \in DOMAIN f} : \A p \in DOMAIN f : m >= Abs(f[p])

\* C9 as stated: the clamp radius is the maximum absolute magnitude of the
\* bipolar field.
C9_RadiusIsMaxMagnitude ==
    (pc = "normalise" /\ width * height > 0) => vmin = MaxAbsOf(outside)

\* C9 as amended: for a non-empty buffer the clamp radius is the absolute
\* value of the minimum of the bipolar field; samples above it are cut down to it.
C9_RadiusIsAbsOfMinimum ==
    (pc = "normalise" /\ width * height > 0) => vmin = Abs(MinOf(outside))

\* C9 witness: a bipolar field whose largest value exceeds the radius.
C9_Witness ==
    /\ pc = "normalise"
    /\ vmin > 0
    /\ \E p \in Pixels(width, height) : outside[p] > vmin

\* A fully uniform input: every sample 0 or every sample 1 (mapd), every
\* byte 0 or every byte 255 (mapb).
UniformBackground ==
    IF entry = "mapd" THEN \A p \in DOMAIN bitmap : bitmap[p] = 0
    ELSE \A p \in DOMAIN img : img[p] = 0
UniformObject ==
    IF entry = "mapd" THEN \A p \in DOMAIN bitmap : bitmap[p] = One
    ELSE \A p \in DOMAIN img : img[p] = 255

\* C10: for a fully uniform input, synthesis yields a uniform output of the
\* correct polarity (float field 1 = outside, 0 = inside; byte 0 = outside,
\* 255 = inside), and no division by zero is evaluated on the way.  (The
\* program has no path that rejects an input.)
C10_UniformInput ==
    (UniformBackground \/ UniformObject) =>
        /\ ~divzero
        /\ (pc = "done" /\ entry = "mapd") =>
              \A p \in Pixels(width, height) :
                  data[p] = (IF UniformBackground THEN One ELSE 0)
        /\ (pc = "done" /\ entry = "mapb") =>
              \A p \in Pixels(width, height) :
                  out[p] = (IF UniformBackground THEN 0 ELSE 255)

\* C11: for every bitmap with samples in [0,1], make_distance_mapd never
\* evaluates the remap (v + vmin) / (2 * vmin) with vmin = 0: a call that
\* has combined its two fields into a bipolar field of minimum 0 does not go
\* on to divide.
C11_ZeroRadiusNotDivided ==
    [][ (pc = "normalise" /\ InRange /\ width * height > 0 /\ vmin = 0)
            => (pc' # "done" /\ pc' # "to_bytes" /\ ~divzero') ]_vars

\* C12: a zero-sized changed region (width 0 or height 0) is reported as a
\* failure by the atlas callback and make_distance_mapb: no unsigned loop
\* bound h - 1 or w - 1 is taken below zero, no buffer is indexed outside
\* its range, nothing is uploaded and the call does not return as if it had
\* succeeded.
C12_ZeroSizedRegionRejected ==
    (entry = "atlas" /\ (region.w = 0 \/ region.h = 0))
    => /\ ~underflow
       /\ pc # "panic"
       /\ upload = {}
       /\ pc \notin {"upload", "done"}

\* The positions of a call in which edtaa3 has been entered or has returned.
SweepEntered ==
    pc \in EdtPcs \cup {"invert", "combine", "normalise", "to_bytes",
                        "upload", "done"}

\* C13: a bitmap with a sample that is not a finite number is rejected
\* before the sweep transform runs: edtaa3 is never entered on it and no
\* field or byte is written from it.
C13_NonFiniteRejected ==
    (\E p \in DOMAIN bitmap : ~IsNum(bitmap[p])) => ~SweepEntered

\* C15: for every field value f in [0,1], the byte make_distance_mapb
\* outputs for it is round(255 * (1 - f)), rounded to the nearest integer.
C15_ByteIsRounded ==
    [][ pc = "to_bytes" =>
          \A p \in DOMAIN data :
              (Le(0, data[p]) /\ Le(data[p], One)) =>
                  out'[p] = RoundDiv[255 * (One - data[p]), One] ]_vars

\* The float a byte of the output stands for: 1 - byte / 255.
ByteToField(b) == One - RoundDiv[b * One, 255]

\* f is more than one quantisation step (1/255) away from 0.5.
ClearOfCrossing(f) == 255 * Abs(f - Half) > One

\* C16: for every field value f in [0,1] more than 1/255 away from 0.5, the
\* byte make_distance_mapb outputs for f, read back as 1 - byte/255, lies on
\* the same side of 0.5 as f.
C16_QuantisationKeepsSide ==
    pc = "done" =>
        \A p \in DOMAIN out :
            (Le(0, data[p]) /\ Le(data[p], One) /\ ClearOfCrossing(data[p]))
            => /\ data[p] > Half => ByteToField(out[p]) > Half
               /\ data[p] < Half => ByteToField(out[p]) < Half

\* C16 witness: values just clear of the crossing on either side have been
\* converted, to 126 and to 128.
C16_Witness ==
    /\ pc = "done"
    /\ \E p \in DOMAIN out :
          /\ ClearOfCrossing(data[p])
          /\ ~ClearOfCrossing(data[p] - Sign(data[p] - Half))
          /\ out[p] \in {126, 128}

\* C17: for every changed region of width rw and height rh, the buffer
\* given to make_distance_mapb holds the region's rw * rh coverage bytes in
\* row order, the buffer it returns has rw * rh bytes, and the texture
\* upload is issued at (region.min.x, region.min.y) with the region's width
\* and height and those bytes.
C17_UploadMatchesRegion ==
    entry = "atlas" =>
        /\ pc # "pad" =>
              /\ width = region.w /\ height = region.h
              /\ DOMAIN img = Pixels(region.w, region.h)
              /\ \A p \in Pixels(region.w, region.h) : img[p] = cache[p]
        /\ pc \in {"upload", "done"} =>
              DOMAIN out = Pixels(region.w, region.h)
        /\ \A u \in upload :
              /\ u.x = region.x /\ u.y = region.y
              /\ u.w = region.w /\ u.h = region.h
              /\ u.bytes = out

\* C17 witness: a 2 x 2 region away from the texture's corner, whose rows
\* differ, has been synthesised and uploaded.
C17_Witness ==
    /\ entry = "atlas" /\ pc = "done"
    /\ region.w = 2 /\ region.h = 2 /\ region.x = 1 /\ region.y = 1
    /\ cache[1] # cache[2]
    /\ upload # {}

\* Synthesis has failed: the region is degenerate, a division by zero or an
\* unsigned underflow has been evaluated, or a sample is not a number.
SynthesisFailed ==
    \/ width = 0 \/ height = 0
    \/ divzero \/ underflow
    \/ \E p \in DOMAIN bitmap : ~IsNum(bitmap[p])
    \/ \E p \in DOMAIN data : ~IsNum(data[p])

\* C18: in the atlas callback no upload is issued for a region whose
\* synthesis has failed (degenerate region, vmin = 0, non-finite samples).
C18_NoUploadAfterFailure ==
    (entry = "atlas" /\ SynthesisFailed) => upload = {}

\* The bitmap is a hard vertical edge: coverage 0 in the columns left of
\* column e, coverage 1 from column e on.
VerticalEdgeAt(e) ==
    /\ e \in 1 .. (width - 1)
    /\ \A p \in DOMAIN bitmap :
          bitmap[p] = (IF Col(p) < e THEN 0 ELSE One)

\* C19: for a hard vertical edge (left part 0, right part 1) in an image
\* with w >= 2 and h >= 1, the distance the first edtaa3 call returns at a
\* background pixel k columns left of the first object column is k, up to
\* the transform's tolerance.
C19_VerticalEdgeDistance ==
    (entry = "mapd" /\ pc = "clamp" /\ pass = "outside") =>
        \A e \in 1 .. (width - 1) :
            VerticalEdgeAt(e) =>
                \A p \in Pixels(width, height) :
                    Col(p) < e =>
                        Abs(outside[p] - (e - Col(p)) * One) <= Epsilon

\* Two samples agree up to the transform's tolerance epsilon, or are both
\* not numbers.
WithinTolerance(a, b) ==
    IF IsNum(a) /\ IsNum(b) THEN Abs(a - b) <= Epsilon
    ELSE ~IsNum(a) /\ ~IsNum(b)

\* C20: make_distance_mapd commutes with the rotation by 180 degrees: the
\* field it produces for the rotated bitmap is, up to the transform's
\* tolerance, the rotated field it produces for the bitmap.
C20_CommutesWithRotation ==
    (pc = "done" /\ DOMAIN first # {}) =>
        \A p \in DOMAIN data :
            WithinTolerance(data[p], first[width * height - 1 - p])

\* What make_distance_mapb starts from: zeroed vectors and vmin = f64::MAX.
FreshLocals ==
    /\ data = Zeros(width, height)
    /\ gx = Zeros(width, height) /\ gy = Zeros(width, height)
    /\ distx = Zeros(width, height) /\ disty = Zeros(width, height)
    /\ outside = Zeros(width, height) /\ inside = Zeros(width, height)
    /\ vmin = F64MAX
    /\ out = << >>

C22_EdgedfLinearOnAxis ==
    /\ \A g \in GradLevels, a \in CoverLevels \cup MarkLevels :
           edgedf[0, g, a] = Half - a /\ edgedf[g, 0, a] = Half - a
    /\ \A g \in GradLevels : edgedf[g, 0, Half] = 0
    /\ (entry = "edtaa3" /\ pc = "loop") =>
           \A p \in DOMAIN data :
               (IsEdgePixel(data[p]) /\ (gx[p] = 0 \/ gy[p] = 0))
                   => outside[p] = Half - data[p]

\* The first loop has run on an edge pixel of coverage 0.5 whose gradient is
\* horizontal and not zero.
C22_Witness ==
    /\ entry = "edtaa3" /\ pc = "loop"
    /\ gy[0] = 0 /\ gx[0] # 0
    /\ data[0] = Half /\ outside[0] = 0

\* The pixels of the first and last row and column.
OnBorder(p) ==
    \/ Col(p) = 0 \/ Col(p) = width - 1
    \/ Row(p) = 0 \/ Row(p) = height - 1

\* C23: computegradient is called on zero-filled gx and gy; it leaves
\* gx[k] = gy[k] = 0 for every pixel k on the one-pixel border and for every
\* pixel whose coverage is <= 0 or >= 1 (or not a number), and it does not
\* change img.
C23_GradientFrame ==
    [][pc = "gradient" =>
          /\ gx = Zeros(width, height) /\ gy = Zeros(width, height)
          /\ data' = data
          /\ \A p \in DOMAIN data :
                 (OnBorder(p) \/ ~(data[p] > 0 /\ data[p] < One))
                    => gx'[p] = 0 /\ gy'[p] = 0]_vars

\* computegradient has returned with a gradient written for a pixel inside
\* the border, next to a border pixel of partial coverage left at zero.
C23_Witness ==
    /\ pc = "edt_init"
    /\ \E p \in DOMAIN data :
           /\ ~OnBorder(p) /\ gx[p] # 0
           /\ \E q \in DOMAIN data :
                  /\ OnBorder(q) /\ data[q] > 0 /\ data[q] < One
                  /\ gx[q] = 0 /\ gy[q] = 0

\* C24: every sample make_distance_mapb hands to make_distance_mapd is a
\* number in [0.0, 1.0].
C24_SamplesInUnitRange ==
    (entry \in {"mapb", "atlas"} /\ pc = "gradient" /\ pass = "outside") =>
        \A p \in DOMAIN data :
            IsNum(data[p]) /\ data[p] >= 0 /\ data[p] <= One

\* The pixel that the offset of pixel p designates.
Designated(p) == p - distx[p] - disty[p] * width

\* C25: while edtaa3 runs, the three buffers agree: a pixel whose offset
\* (dx, dy) is not (0,0) has dist = sqrt(dx*dx + dy*dy) + edgedf(dx, dy, a),
\* where a is the coverage, clipped to [0,1], of the pixel at index
\* i - dx - dy*w; a pixel whose offset is (0,0) has its initial distance.
C25_BuffersAgree ==
    pc \in EdtPcs =>
        \A p \in Pixels(width, height) :
            IF distx[p] = 0 /\ disty[p] = 0
            THEN Dist[p] = InitDist(data, gx, gy, p)
            ELSE /\ Designated(p) \in DOMAIN data
                 /\ IsNum(data[Designated(p)])
                 /\ Dist[p] =
                        ISqrt[(distx[p] * One) * (distx[p] * One)
                              + (disty[p] * One) * (disty[p] * One)]
                        + edgedf[distx[p] * One, disty[p] * One,
                                 Clip01(data[Designated(p)])]

\* A pixel holds a diagonal offset to an edge pixel of partial coverage, and
\* a pixel holds an offset of two columns or more.
C25_Witness ==
    /\ pc \in EdtPcs
    /\ \E p \in Pixels(width, height) :
           /\ distx[p] # 0 /\ disty[p] # 0
           /\ data[Designated(p)] > 0 /\ data[Designated(p)] < One
    /\ \E p \in Pixels(width, height) :
           /\ Abs(distx[p]) >= 2
           /\ Dist[p] < Sentinel

\* The samples the call was given are numbers in [0,1].
SamplesInUnitRange ==
    \A p \in DOMAIN bitmap :
        IsNum(bitmap[p]) /\ bitmap[p] >= 0 /\ bitmap[p] <= One

\* C26: during the sweeps of edtaa3 no step raises the distance of a pixel,
\* a step that changes it lowers it by more than epsilon, and for samples in
\* [0,1] the distance stays above -1.
C26_DistanceDecreases ==
    [][(pc \in EdtPcs \ {"clamp"}) =>
          \A p \in Pixels(width, height) :
              /\ Dist'[p] <= Dist[p]
              /\ Dist'[p] # Dist[p] => Dist'[p] < Dist[p] - Epsilon
              /\ SamplesInUnitRange => Dist'[p] > 0 - One]_vars

\* The last candidate of a pixel has just replaced a distance that was
\* already below the sentinel, in a call with samples in [0,1].
C26_Witness ==
    /\ pc \in EdtPcs /\ called
    /\ olddist < Sentinel /\ newdist < olddist - Epsilon
    /\ \E p \in Pixels(width, height) :
           Dist[p] = newdist /\ distx[p] = newdistx /\ disty[p] = newdisty
    /\ SamplesInUnitRange

\* C27: when edtaa3 returns on an image with w >= 2 and h >= 2 that has a
\* pixel of coverage > 0, no pixel holds the sentinel, and every background
\* pixel has an offset that designates a pixel of coverage > 0.
C27_AllPixelsReached ==
    (pc = "clamp" /\ width >= 2 /\ height >= 2
        /\ \E q \in DOMAIN data : Gt(data[q], 0)) =>
        \A p \in Pixels(width, height) :
            /\ Dist[p] < Sentinel
            /\ Le(data[p], 0) =>
                   /\ distx[p] # 0 \/ disty[p] # 0
                   /\ Designated(p) \in DOMAIN data
                   /\ Gt(data[Designated(p)], 0)

\* C28: for every size with width >= 1 and height >= 1 every index used by
\* computegradient, edtaa3 and distaa3 is inside the buffers, and no
\* unsigned index computation goes below 0: no call panics on an index.
C28_IndicesInRange ==
    (entry = "mapd" /\ width >= 1 /\ height >= 1) =>
        pc # Panic /\ ~underflow

\* C29: after both fields are clamped at 0, every pixel has outside = 0 or
\* inside = 0, and the bipolar value the combining loop writes is the
\* pixel's outside or the negative of its inside.  (Thousandths do not show
\* a distance of one f64 rounding step above 0.)
C29_OneFieldIsZero ==
    [][pc = "combine" =>
          \A p \in Pixels(width, height) :
              /\ outside[p] = 0 \/ inside[p] = 0
              /\ outside'[p] = outside[p] \/ outside'[p] = 0 - inside[p]]_vars

\* Both fields are clamped: a pixel of partial coverage is at a positive
\* distance inside, and another pixel at a positive distance outside.
C29_Witness ==
    /\ pc = "combine"
    /\ \E p \in Pixels(width, height) :
           /\ bitmap[p] > 0 /\ bitmap[p] < One
           /\ inside[p] > 0 /\ outside[p] = 0
    /\ \E p \in Pixels(width, height) : outside[p] > 0 /\ inside[p] = 0

\* C30: once a call of update_cb has returned true, update_cb is not called
\* again, the termination request stays set, and run returns after at most
\* one more call of render_cb.
C30_TerminationRequestSticks ==
    requested =>
        /\ ~updated_after
        /\ should_terminate
        /\ rendered_after <= 1

====
